---------------------------- MODULE Spec2Model ----------------------------
(***************************************************************************)
(* mdbabel: a markdown document is scanned line by line for directives (a  *)
(* header comment followed by a fenced code block); every directive is     *)
(* handed to an executor chosen by the language tag of its opening fence.  *)
(*                                                                         *)
(* Text is a sequence of characters (one-character strings, and two named  *)
(* tokens: BQ for the backtick, BAD_BYTE for a byte that is not UTF-8), so *)
(* that searching, slicing and trimming are computed and not assumed.      *)
(* Indices into a line are 0-based byte offsets, as in the source.         *)
(***************************************************************************)
EXTENDS Integers, Sequences, FiniteSets, TLC

VARIABLES
    doc,        \* the lines of the input file behind the BufReader
    pos,        \* number of lines the BufReader has consumed
    line_buf,   \* Document.line_buf
    yielded,    \* what the successive calls of Document::next returned
    pc,         \* position of main: "pull", "exec", "wait", "done", "abort"
    directive,  \* the loop variable of main: the directive being dispatched
    cmds,       \* the commands handed to the operating system, in order
    alive,      \* number of child processes spawned and not yet reaped
    fault,      \* the failure that aborted main, if any
    exits,      \* the exit statuses wait returned, in order
    call        \* a single call of one of the line-level functions

vars ==
    <<doc, pos, line_buf, yielded, pc, directive, cmds, alive, fault, exits, call>>

(***************************************************************************)
(* Bounds of the model.                                                    *)
(***************************************************************************)
MaxChunks == 4      \* a document is made of at most this many chunks
MaxPulls == 4       \* calls of Document::next by a caller other than main
MaxFrags == 3       \* a line given to a line-level function: this many fragments
MaxCodeLines == 2   \* lines of the code of a body given to Executors::execute
MaxTokens == 4      \* tokens of a comment content given to from_comment_contents
MaxReadLines == 3   \* lines of a document read by calls of read_lines_while

(***************************************************************************)
(* Option, Result and a panic of the Rust source.                          *)
(***************************************************************************)
None == [is |-> "None"]
Some(x) == [is |-> "Some", val |-> x]
Ok(x) == [is |-> "Ok", val |-> x]
Err(e) == [is |-> "Err", err |-> e]
Panic == [is |-> "Panic"]

Min(S) == CHOOSE x \in S : \A y \in S : x <= y

RECURSIVE Concat(_)
Concat(ss) == IF ss = <<>> THEN <<>> ELSE Head(ss) \o Concat(Tail(ss))

(***************************************************************************)
(* Characters and literals.                                                *)
(***************************************************************************)
DIRECTIVE_PREFIX == <<"m", "d", "b", "a", "b", "e", "l">>
CODEBLOCK_NAME_PARAMETER == <<":", "n", "a", "m", "e">>
COMMENT_OPEN == <<"<", "!", "-", "-">>
COMMENT_CLOSE == <<"-", "-", ">">>
\* the backtick is written BQ: the lexer does not take it inside a string
BQ == "BQ"
FENCE == <<BQ, BQ, BQ>>
SP == <<" ">>
NL == <<"\n">>
\* a byte that is not valid UTF-8: BufRead::read_line fails on a line holding it
BAD_BYTE == "0xFF"

\* char::is_whitespace, on the characters the model uses
is_whitespace(c) == c \in {" ", "\t", "\n", "\r"}
\* u8::is_ascii_whitespace
is_ascii_whitespace(c) == c \in {" ", "\t", "\n", "\r"}

(***************************************************************************)
(* str::find, str::starts_with, slicing and str::trim.                     *)
(***************************************************************************)
MatchesAt(s, pat, i) ==
    /\ i + Len(pat) <= Len(s)
    /\ \A k \in 1..Len(pat) : s[i + k] = pat[k]

find(s, pat) ==
    LET hits == {i \in 0..Len(s) : MatchesAt(s, pat, i)}
    IN  IF hits = {} THEN None ELSE Some(Min(hits))

starts_with(s, pat) == MatchesAt(s, pat, 0)

\* &s[a..b]: the caller has checked a <= b <= len
Slice(s, a, b) == SubSeq(s, a + 1, b)

RECURSIVE trim_start(_)
trim_start(s) ==
    IF s # <<>> /\ is_whitespace(Head(s)) THEN trim_start(Tail(s)) ELSE s

RECURSIVE trim_end(_)
trim_end(s) ==
    IF s # <<>> /\ is_whitespace(s[Len(s)])
    THEN trim_end(SubSeq(s, 1, Len(s) - 1))
    ELSE s

trim(s) == trim_end(trim_start(s))

\* str::split_ascii_whitespace: the non-empty runs of non-whitespace
RECURSIVE SplitFrom(_, _, _)
SplitFrom(s, cur, acc) ==
    IF s = <<>>
    THEN IF cur = <<>> THEN acc ELSE Append(acc, cur)
    ELSE IF is_ascii_whitespace(Head(s))
         THEN SplitFrom(Tail(s), <<>>, IF cur = <<>> THEN acc ELSE Append(acc, cur))
         ELSE SplitFrom(Tail(s), Append(cur, Head(s)), acc)

split_ascii_whitespace(s) == SplitFrom(s, <<>>, <<>>)

(***************************************************************************)
(* markdown.rs: the line-level functions.                                  *)
(***************************************************************************)
\* &line[(beg_idx + 4)..(end_idx)] panics when beg_idx + 4 > end_idx
parse_comment_from_line(line) ==
    LET beg == find(line, COMMENT_OPEN)
        end == find(line, COMMENT_CLOSE)
    IN  IF beg # None /\ end # None
        THEN IF beg.val + 4 > end.val
             THEN Panic
             ELSE Some(trim(Slice(line, beg.val + 4, end.val)))
        ELSE None

\* a fence delimiter taken to be the bare marker alone
is_code_block_del_bare(line) == line = FENCE \/ line = FENCE \o NL

is_code_block_del(line) == starts_with(line, FENCE)

parse_lang_from_code_block_del(line) ==
    LET n == find(line, FENCE)
    IN  IF n # None
        THEN IF Len(line) > n.val + 3
             THEN Some(trim(Slice(line, n.val + 3, Len(line))))
             ELSE None
        ELSE None

\* a header that rejects whatever follows the name
from_comment_contents_exact(content) ==
    LET ss == split_ascii_whitespace(content)
    IN  IF Len(ss) = 3 /\ ss[1] = DIRECTIVE_PREFIX /\ ss[2] = CODEBLOCK_NAME_PARAMETER
        THEN Ok([name |-> ss[3]])
        ELSE Err("Header is not a prefix, a name parameter and its value")

from_comment_contents(content) ==
    LET ss == split_ascii_whitespace(content)
    IN  IF Len(ss) = 0
        THEN Err("Header contains nothing useful")
        ELSE IF ss[1] # DIRECTIVE_PREFIX
        THEN Err("Header does not contain correct prefix")
        ELSE IF Len(ss) >= 2 /\ ss[2] = CODEBLOCK_NAME_PARAMETER
        THEN IF Len(ss) >= 3
             THEN Ok([name |-> ss[3]])
             ELSE Err("No value for 'name' parameter")
        ELSE Err("Header doesn't contain 'name' as first parameter")

(***************************************************************************)
(* markdown.rs: the reader.  A line of the file is read whole, with its    *)
(* terminator.  BufRead::read_line fails on a line that is not UTF-8, after *)
(* having consumed it.  At the end of the file it returns 0 bytes.         *)
(***************************************************************************)
is_utf8(text) == \A k \in 1..Len(text) : text[k] # BAD_BYTE

\* buf.truncate(0); reader.read_line(buf): the text read, the new position
read_line(d, p) ==
    IF p >= Len(d)
    THEN [res |-> Ok(<<>>), pos |-> p]
    ELSE IF is_utf8(d[p + 1])
         THEN [res |-> Ok(d[p + 1]), pos |-> p + 1]
         ELSE [res |-> Err("stream did not contain valid UTF-8"), pos |-> p + 1]

\* the closures, with a comment line ending the body as a fence does
predicate_comment_ends_body(P, line) ==
    CASE P = "discard_pred" ->
            LET c == parse_comment_from_line(line)
            IN  IF c = Panic THEN Panic ELSE Ok(c = None)
      [] P = "never" -> Ok(FALSE)
      [] P = "code_pred" ->
            Ok(~is_code_block_del(line) /\ parse_comment_from_line(line) = None)

\* The three closures handed to read_lines_while.  discard_pred panics where
\* parse_comment_from_line does.
predicate(P, line) ==
    CASE P = "discard_pred" ->
            LET c == parse_comment_from_line(line)
            IN  IF c = Panic THEN Panic ELSE Ok(c = None)
      [] P = "never" -> Ok(FALSE)
      [] P = "code_pred" -> Ok(~is_code_block_del(line))

\* the loop, with the end of the file closing a body as a fence does
RECURSIVE read_loop_eof_closes(_, _, _, _, _)
read_loop_eof_closes(d, p, P, line, code) ==
    LET t == predicate(P, line)
    IN  IF t = Panic
        THEN [res |-> Panic, pos |-> p, buf |-> line, code |-> code]
        ELSE IF t.val
        THEN LET r == read_line(d, p)
                 pushed == IF P = "code_pred" THEN code \o line ELSE code
             IN  IF r.res.is = "Err"
                 THEN [res |-> r.res, pos |-> r.pos, buf |-> <<>>, code |-> pushed]
                 ELSE IF Len(r.res.val) = 0
                 THEN IF P = "code_pred"
                      THEN [res |-> Ok(<<>>), pos |-> r.pos, buf |-> <<>>,
                            code |-> pushed]
                      ELSE [res |-> Err("End of file"), pos |-> r.pos,
                            buf |-> <<>>, code |-> pushed]
                 ELSE read_loop_eof_closes(d, r.pos, P, r.res.val, pushed)
        ELSE [res |-> Ok(line), pos |-> p, buf |-> line, code |-> code]

\* The while loop of read_lines_while, entered with `line` just read at
\* position p.  `code` is what code_pred has pushed so far (the lines its
\* predicate accepted); the other two closures push nothing.
RECURSIVE read_loop(_, _, _, _, _)
read_loop(d, p, P, line, code) ==
    LET t == predicate(P, line)
    IN  IF t = Panic
        THEN [res |-> Panic, pos |-> p, buf |-> line, code |-> code]
        ELSE IF t.val
        THEN LET r == read_line(d, p)
                 pushed == IF P = "code_pred" THEN code \o line ELSE code
             IN  IF r.res.is = "Err"
                 THEN [res |-> r.res, pos |-> r.pos, buf |-> <<>>, code |-> pushed]
                 ELSE IF Len(r.res.val) = 0
                 THEN [res |-> Err("End of file"), pos |-> r.pos, buf |-> <<>>,
                       code |-> pushed]
                 ELSE read_loop(d, r.pos, P, r.res.val, pushed)
        ELSE [res |-> Ok(line), pos |-> p, buf |-> line, code |-> code]

read_lines_while(d, p, P) ==
    LET r == read_line(d, p)
    IN  IF r.res.is = "Err"
        THEN [res |-> r.res, pos |-> r.pos, buf |-> <<>>, code |-> <<>>]
        ELSE read_loop(d, r.pos, P, r.res.val, <<>>)

\* the next line taken to be the next fence delimiter, whatever precedes it
read_next_fence(d, p) == read_lines_while(d, p, "code_pred")

read_next_line(d, p) == read_lines_while(d, p, "never")

(***************************************************************************)
(* markdown.rs: Document::next.  The value is what the call returns (ret:  *)
(* Some(directive), None, or Panic), the reader's new position and buffer, *)
(* and, for the properties, the lines the directive spans (first, fence,   *)
(* last) or why and at which line the call gave up.                        *)
(***************************************************************************)
GiveUp(r, why, at) ==
    [ret |-> None, pos |-> r.pos, buf |-> r.buf, why |-> why, at |-> at]

Document_next(d, p) ==
    LET seek == read_lines_while(d, p, "discard_pred")
    IN  IF seek.res = Panic
        THEN [ret |-> Panic, pos |-> seek.pos, buf |-> seek.buf,
              why |-> "panic", at |-> seek.pos]
        ELSE IF seek.res.is = "Err"
        THEN GiveUp(seek, seek.res.err, seek.pos)
        ELSE
        LET content == parse_comment_from_line(seek.res.val)
            header == from_comment_contents(content.val)
        IN  IF header.is = "Err"
            THEN GiveUp(seek, "malformed header", seek.pos)
            ELSE
            LET open == read_next_line(d, seek.pos)
            IN  IF open.res.is = "Err"
                THEN GiveUp(open, open.res.err, open.pos)
                ELSE IF ~is_code_block_del(open.res.val)
                THEN GiveUp(open, "no opening fence", open.pos)
                ELSE
                LET lang == parse_lang_from_code_block_del(open.res.val)
                    body == read_lines_while(d, open.pos, "code_pred")
                IN  IF body.res.is = "Err"
                    THEN GiveUp(body, body.res.err, body.pos)
                    ELSE [ret |-> Some([header |-> header.val,
                                        body |-> [lang |-> lang, code |-> body.code]]),
                          pos |-> body.pos, buf |-> body.buf,
                          first |-> seek.pos, fence |-> open.pos, last |-> body.pos]

(***************************************************************************)
(* executor.rs.                                                            *)
(***************************************************************************)
SH == <<"s", "h">>
BASH == <<"b", "a", "s", "h">>
SHELL == <<"s", "h", "e", "l", "l">>
DASH_C == <<"-", "c">>

\* LangExecutor::new
LangExecutor(program, base_args) == [program |-> program, base_args |-> base_args]

\* the registry with shell bound to bash
default_executors_shell_bash ==
    [tag \in {SH, BASH, SHELL} |->
        IF tag = SH
        THEN LangExecutor(SH, <<DASH_C>>)
        ELSE LangExecutor(BASH, <<DASH_C>>)]

\* Executors::default_executors: the HashMap, a function of the registered tags
default_executors ==
    [tag \in {SH, BASH, SHELL} |->
        IF tag = BASH
        THEN LangExecutor(BASH, <<DASH_C>>)
        ELSE LangExecutor(SH, <<DASH_C>>)]

\* Executors::execute: the executor the body is handed to, if any
executor_for(exs, body) ==
    IF body.lang.is = "Some"
    THEN IF body.lang.val \in DOMAIN exs THEN Some(exs[body.lang.val]) ELSE None
    ELSE None

\* LangExecutor::execute_body: Command::new(program).args(base_args).arg(code)
Command(ex, body) ==
    [program |-> ex.program, args |-> Append(ex.base_args, body.code)]

(***************************************************************************)
(* main.rs: the loop `for directive in doc` and the unwrap of execute.     *)
(***************************************************************************)
\* a loop that asks again after None
loop_step_resuming(ret) ==
    CASE ret.is = "Some" -> "exec"
      [] ret.is = "None" -> "pull"
      [] ret.is = "Panic" -> "abort"

\* the for loop: a directive runs the loop body, None leaves the loop; a
\* panic inside Document::next unwinds main
loop_step(ret) ==
    CASE ret.is = "Some" -> "exec"
      [] ret.is = "None" -> "done"
      [] ret.is = "Panic" -> "abort"

\* the result of execute dropped instead of unwrapped
unwrap_dropped(result) == "pull"

\* exs.execute(&body).unwrap()
unwrap(result) == IF result.is = "Ok" THEN "pull" ELSE "abort"

(***************************************************************************)
(* The documents.  A document is a sequence of lines; only its last line   *)
(* may lack the terminator.  Documents are built from chunks, so that      *)
(* whole directives occur in documents of a few chunks.                    *)
(***************************************************************************)
TextLine == <<"x">> \o NL
BlankLine == NL
HeaderA ==
    COMMENT_OPEN \o SP \o DIRECTIVE_PREFIX \o SP \o CODEBLOCK_NAME_PARAMETER
        \o SP \o <<"a">> \o SP \o COMMENT_CLOSE \o NL
HeaderB ==
    COMMENT_OPEN \o DIRECTIVE_PREFIX \o SP \o CODEBLOCK_NAME_PARAMETER
        \o SP \o <<"b">> \o COMMENT_CLOSE \o NL
Malformed == COMMENT_OPEN \o SP \o <<"x">> \o SP \o COMMENT_CLOSE \o NL
Reversed == COMMENT_CLOSE \o SP \o COMMENT_OPEN \o NL
NotUtf8 == <<BAD_BYTE>> \o NL
FenceSh == FENCE \o SH \o NL
FenceBash == FENCE \o SP \o BASH \o NL
FenceBare == FENCE \o NL
FenceEof == FENCE

Chunks ==
    << <<BlankLine>>, <<Malformed>>, <<Reversed>>, <<NotUtf8>>, <<HeaderA>>,
       <<FenceBare>>, <<FenceEof>>,
       <<HeaderB, FenceBash, FenceBare>>,
       <<HeaderA, FenceSh, TextLine, FenceBare>> >>

Terminated(d) == \A i \in 1..(Len(d) - 1) : d[i][Len(d[i])] = "\n"

Docs ==
    {d \in {Concat([i \in DOMAIN cs |-> Chunks[cs[i]]]) :
                cs \in UNION {[1..n -> 1..Len(Chunks)] : n \in 0..MaxChunks}} :
        Terminated(d)}

(***************************************************************************)
(* The run of main over a document.                                        *)
(***************************************************************************)
Idle == [fn |-> "none"]
Pending == [is |-> "Pending"]

Init ==
    /\ doc \in Docs
    /\ pos = 0
    /\ line_buf = <<>>
    /\ yielded = <<>>
    /\ pc = "pull"
    /\ directive = None
    /\ cmds = <<>>
    /\ alive = 0
    /\ fault = None
    /\ exits = <<>>
    /\ call = Idle

\* the call, after which the reader stands at the start of the file again
NextOnReaderRewound ==
    LET r == Document_next(doc, pos)
    IN  /\ pos' = 0
        /\ line_buf' = r.buf
        /\ yielded' = Append(yielded, r)

\* Document::next on the reader: one call, whole
NextOnReader ==
    LET r == Document_next(doc, pos)
    IN  /\ pos' = r.pos
        /\ line_buf' = r.buf
        /\ yielded' = Append(yielded, r)

\* main.rs:24: the loop asks the document for the next directive
Pull ==
    /\ pc = "pull"
    /\ NextOnReader
    /\ pc' = loop_step(Document_next(doc, pos).ret)
    /\ directive' = Document_next(doc, pos).ret
    /\ UNCHANGED <<doc, cmds, alive, fault, exits,
                 call>>

\* main.rs:27, executor.rs:47-56: no executor for the body, execute is Ok(())
DispatchSkip ==
    /\ pc = "exec"
    /\ executor_for(default_executors, directive.val.body) = None
    /\ pc' = unwrap(Ok(<<>>))
    /\ UNCHANGED <<doc, pos, line_buf, yielded, directive, cmds, alive, fault,
                 exits, call>>

\* the command spawned and not waited for
SpawnNoWait ==
    /\ pc = "exec"
    /\ executor_for(default_executors, directive.val.body) # None
    /\ LET ex == executor_for(default_executors, directive.val.body).val
       IN  cmds' = Append(cmds, Command(ex, directive.val.body))
    /\ alive' = alive + 1
    /\ pc' = unwrap(Ok(<<>>))
    /\ UNCHANGED <<doc, pos, line_buf, yielded, directive, fault, exits,
                 call>>

\* executor.rs:18-21: the command is spawned; main blocks in wait
Spawn ==
    /\ pc = "exec"
    /\ executor_for(default_executors, directive.val.body) # None
    /\ LET ex == executor_for(default_executors, directive.val.body).val
       IN  cmds' = Append(cmds, Command(ex, directive.val.body))
    /\ alive' = alive + 1
    /\ pc' = "wait"
    /\ UNCHANGED <<doc, pos, line_buf, yielded, directive, fault, exits,
                 call>>

\* executor.rs:21: spawn()? fails; main.rs:27: unwrap panics
SpawnFail ==
    /\ pc = "exec"
    /\ executor_for(default_executors, directive.val.body) # None
    /\ LET ex == executor_for(default_executors, directive.val.body).val
       IN  cmds' = Append(cmds, Command(ex, directive.val.body))
    /\ fault' = Some([err |-> "spawn", pos |-> pos, cmds |-> Len(cmds')])
    /\ pc' = unwrap(Err("spawn"))
    /\ UNCHANGED <<doc, pos, line_buf, yielded, directive, alive, exits,
                 call>>

\* the status wait returned is consulted: a failure status ends the run
WaitOkStatusChecked ==
    /\ pc = "wait"
    /\ \E status \in {0, 1} :
        /\ exits' = Append(exits, status)
        /\ alive' = alive - 1
        /\ pc' = IF status = 0 THEN unwrap(Ok(<<>>)) ELSE "abort"
    /\ UNCHANGED <<doc, pos, line_buf, yielded, directive, cmds, fault, call>>

\* executor.rs:22: the child has terminated, with whatever status; wait
\* returns it and execute_body drops it
WaitOk ==
    /\ pc = "wait"
    /\ \E status \in {0, 1} :
        /\ exits' = Append(exits, status)
        /\ alive' = alive - 1
        /\ pc' = unwrap(Ok(<<>>))
    /\ UNCHANGED <<doc, pos, line_buf, yielded, directive, cmds, fault, call>>

\* executor.rs:22: wait()? fails; main.rs:27: unwrap panics
WaitFail ==
    /\ pc = "wait"
    /\ fault' = Some([err |-> "wait", pos |-> pos, cmds |-> Len(cmds)])
    /\ pc' = unwrap(Err("wait"))
    /\ UNCHANGED <<doc, pos, line_buf, yielded, directive, cmds, alive, exits,
                 call>>

Next == Pull \/ DispatchSkip \/ Spawn \/ SpawnFail \/ WaitOk \/ WaitFail

Spec == Init /\ [][Next]_vars

(***************************************************************************)
(* Document::next called by any caller: it may call again after None (the  *)
(* test read_document_basic does).  A panic ends the caller.               *)
(***************************************************************************)
DocNext ==
    /\ Len(yielded) < MaxPulls
    /\ yielded # <<>> => yielded[Len(yielded)].ret # Panic
    /\ NextOnReader
    /\ UNCHANGED <<doc, pc, directive, cmds, alive, fault, exits,
                 call>>

SpecPull == Init /\ [][DocNext]_vars

(***************************************************************************)
(* Executors::execute on any CodeBlockBody: the body is what a caller      *)
(* builds, not only what Document::next yields (lang may be None).         *)
(***************************************************************************)
Codes ==
    {Concat(ls) : ls \in UNION {[1..n -> {TextLine, HeaderA, FenceEof \o NL}] :
                                    n \in 0..MaxCodeLines}}

Langs ==
    {None, Some(SH), Some(BASH), Some(SHELL), Some(<<>>), Some(<<"p", "y">>),
     Some(SP \o SH)}

InitExec ==
    /\ doc = <<>>
    /\ pos = 0
    /\ line_buf = <<>>
    /\ yielded = <<>>
    /\ pc = "exec"
    /\ directive \in {Some([header |-> [name |-> <<"a">>],
                            body |-> [lang |-> l, code |-> c]]) :
                        l \in Langs, c \in Codes}
    /\ cmds = <<>>
    /\ alive = 0
    /\ fault = None
    /\ exits = <<>>
    /\ call = Idle

NextExec == DispatchSkip \/ Spawn \/ SpawnFail \/ WaitOk \/ WaitFail

SpecExec == InitExec /\ [][NextExec]_vars

(***************************************************************************)
(* One call of a line-level function on any line.                          *)
(***************************************************************************)
Frags ==
    {COMMENT_OPEN, COMMENT_CLOSE, <<" ", "x", " ">>, <<"x">>, <<"-">>, <<">">>,
     FENCE, NL}

LineInputs ==
    {Concat(fs) : fs \in UNION {[1..n -> Frags] : n \in 0..MaxFrags}}

\* The contents given to from_comment_contents: words joined by runs of
\* whitespace, with or without whitespace around them.  toks are the words
\* the content was made of.
Words ==
    {DIRECTIVE_PREFIX, CODEBLOCK_NAME_PARAMETER, <<"a">>,
     DIRECTIVE_PREFIX \o <<"x">>, <<":", "n">>}

Seps == {SP, SP \o SP, <<"\t">>}

Pads == {<<>>, SP}

RECURSIVE Joined(_, _)
Joined(ts, sep) ==
    IF ts = <<>> THEN <<>>
    ELSE IF Len(ts) = 1 THEN ts[1]
    ELSE ts[1] \o sep \o Joined(Tail(ts), sep)

ContentInputs ==
    {[toks |-> ts, text |-> pad \o Joined(ts, sep) \o pad] :
        ts \in UNION {[1..n -> Words] : n \in 0..MaxTokens},
        sep \in Seps, pad \in Pads}

InitFn ==
    /\ doc = <<>>
    /\ pos = 0
    /\ line_buf = <<>>
    /\ yielded = <<>>
    /\ pc = "done"
    /\ directive = None
    /\ cmds = <<>>
    /\ alive = 0
    /\ fault = None
    /\ exits = <<>>
    /\ call \in {[fn |-> f, arg |-> a, out |-> Pending] :
                    f \in {"parse_comment_from_line", "parse_lang_from_code_block_del"},
                    a \in LineInputs}
                \cup {[fn |-> "from_comment_contents", arg |-> c.text,
                       toks |-> c.toks, out |-> Pending] : c \in ContentInputs}

CallParseComment ==
    /\ call.fn = "parse_comment_from_line"
    /\ call.out = Pending
    /\ call' = [call EXCEPT !.out = parse_comment_from_line(call.arg)]
    /\ UNCHANGED <<doc, pos, line_buf, yielded, pc, directive, cmds, alive, fault,
                 exits>>

CallParseLang ==
    /\ call.fn = "parse_lang_from_code_block_del"
    /\ call.out = Pending
    /\ call' = [call EXCEPT !.out = parse_lang_from_code_block_del(call.arg)]
    /\ UNCHANGED <<doc, pos, line_buf, yielded, pc, directive, cmds, alive, fault,
                 exits>>

CallFromCommentContents ==
    /\ call.fn = "from_comment_contents"
    /\ call.out = Pending
    /\ call' = [call EXCEPT !.out = from_comment_contents(call.arg)]
    /\ UNCHANGED <<doc, pos, line_buf, yielded, pc, directive, cmds, alive, fault,
                 exits>>

NextFn == CallParseComment \/ CallParseLang \/ CallFromCommentContents

SpecFn == InitFn /\ [][NextFn]_vars

(***************************************************************************)
(* Document's reading methods called one after the other on a document,    *)
(* each from where the one before left the reader.  A panic ends the       *)
(* caller.                                                                 *)
(***************************************************************************)
ReadLines == {TextLine, HeaderA, FenceSh, NotUtf8, Reversed, <<"x">>}

ReadDocs ==
    {d \in UNION {[1..n -> ReadLines] : n \in 0..MaxReadLines} : Terminated(d)}

InitRead ==
    /\ doc \in ReadDocs
    /\ pos = 0
    /\ line_buf = <<>>
    /\ yielded = <<>>
    /\ pc = "done"
    /\ directive = None
    /\ cmds = <<>>
    /\ alive = 0
    /\ fault = None
    /\ exits = <<>>
    /\ call = Idle

\* one call of a reading method with the closure P, from position pos
ReadWith(fn, P, r) ==
    /\ IF call = Idle THEN TRUE ELSE call.out # Panic
    /\ pos' = r.pos
    /\ line_buf' = r.buf
    /\ call' = [fn |-> fn, arg |-> P, from |-> pos, out |-> r.res]
    /\ UNCHANGED <<doc, yielded, pc, directive, cmds, alive, fault, exits>>

CallReadLinesWhile ==
    \E P \in {"discard_pred", "code_pred"} :
        ReadWith("read_lines_while", P, read_lines_while(doc, pos, P))

CallReadNextLine == ReadWith("read_next_line", "never", read_next_line(doc, pos))

NextRead == CallReadLinesWhile \/ CallReadNextLine

SpecRead == InitRead /\ [][NextRead]_vars

(***************************************************************************)
(* The vocabulary of the properties: what the document says, read off its  *)
(* lines without the reader.                                               *)
(***************************************************************************)
\* the comment of a line: the trimmed text between the first opening marker
\* and the first closing marker, when the first precedes the second
CommentOf(line) ==
    LET beg == find(line, COMMENT_OPEN)
        end == find(line, COMMENT_CLOSE)
    IN  IF beg # None /\ end # None /\ beg.val + 4 <= end.val
        THEN Some(trim(SubSeq(line, beg.val + 5, end.val)))
        ELSE None

IsHeaderLine(line) ==
    /\ CommentOf(line) # None
    /\ from_comment_contents(CommentOf(line).val).is = "Ok"

IsMalformedLine(line) ==
    /\ CommentOf(line) # None
    /\ from_comment_contents(CommentOf(line).val).is = "Err"

IsFenceLine(line) == Len(line) >= 3 /\ SubSeq(line, 1, 3) = FENCE

\* the language tag of an opening fence: the trimmed text after the marker,
\* absent when that text is empty or blank
TagOf(line) ==
    LET t == trim(SubSeq(line, 4, Len(line)))
    IN  IF t = <<>> THEN None ELSE Some(t)

IsText(d) == \A i \in 1..Len(d) : is_utf8(d[i])

\* lines i..j of d are a well-formed directive
IsDirectiveAt(d, i, j) ==
    /\ 1 <= i /\ i + 2 <= j /\ j <= Len(d)
    /\ IsHeaderLine(d[i])
    /\ IsFenceLine(d[i + 1])
    /\ \A k \in (i + 2)..(j - 1) : ~IsFenceLine(d[k])
    /\ IsFenceLine(d[j])

\* the tag as the source reads it off the fence line it is given
TagAsParsed(line) == parse_lang_from_code_block_del(line)

\* the directive that lines i..j spell, its tag as "stated" (by TagOf) or as
\* "parsed" (by the source)
DirectiveAt(d, i, j, tag) ==
    [header |-> [name |-> split_ascii_whitespace(CommentOf(d[i]).val)[3]],
     body |-> [lang |-> IF tag = "parsed" THEN TagAsParsed(d[i + 1])
                        ELSE TagOf(d[i + 1]),
               code |-> Concat(SubSeq(d, i + 2, j - 1))]]

\* The document from line i on, read as directives separated by lines that
\* hold no comment: the spans of its directives, or Ill when it is not of
\* that form.
Ill == <<[first |-> 0, last |-> 0]>>
RECURSIVE Segments(_, _)
Segments(d, i) ==
    IF i > Len(d) THEN <<>>
    ELSE IF CommentOf(d[i]) = None THEN Segments(d, i + 1)
    ELSE LET closes == {j \in (i + 2)..Len(d) : IsDirectiveAt(d, i, j)}
         IN  IF closes = {} THEN Ill
             ELSE LET rest == Segments(d, Min(closes) + 1)
                  IN  IF rest = Ill THEN Ill
                      ELSE <<[first |-> i, last |-> Min(closes)]>> \o rest

\* what the calls of Document::next returned, as the caller sees it
Returned == [k \in 1..Len(yielded) |-> yielded[k].ret]

(***************************************************************************)
(* The properties.                                                         *)
(***************************************************************************)
\* a line on which parse_comment_from_line panics: both markers, the closing
\* one before the end of the opening one
HasCrossedMarkers(line) ==
    /\ find(line, COMMENT_OPEN) # None
    /\ find(line, COMMENT_CLOSE) # None
    /\ CommentOf(line) = None

\* the one directive of a document that holds one well-formed directive and
\* no other comment line, as <<i, j>>; <<>> when the document is not such
TheDirective(d) ==
    LET spans == {s \in (1..Len(d)) \X (1..Len(d)) :
                    /\ IsDirectiveAt(d, s[1], s[2])
                    /\ \A k \in 1..Len(d) : k # s[1] => CommentOf(d[k]) = None}
    IN  IF IsText(d) /\ spans # {}
        THEN CHOOSE s \in spans : \A t \in spans : s[2] <= t[2]
        ELSE <<>>

\* C1: on a document with exactly one well-formed directive and no other
\* comment line, the first call of Document::next returns that directive,
\* its code the lines between the fences, and the second call returns None.
C1_RoundTrip ==
    LET s == TheDirective(doc)
    IN  s # <<>> =>
            /\ Len(yielded) >= 1 =>
                    /\ Returned[1].is = "Some"
                    /\ Returned[1].val.body.code =
                            Concat(SubSeq(doc, s[1] + 2, s[2] - 1))
                    /\ Returned[1].val.header =
                            DirectiveAt(doc, s[1], s[2], "stated").header
            /\ Len(yielded) >= 2 => Returned[2] = None

\* C1, on the documents none of whose lines has crossed markers: it holds
C1_RoundTripUncrossed ==
    (\A i \in 1..Len(doc) : ~HasCrossedMarkers(doc[i])) => C1_RoundTrip

C1_UncrossedReached ==
    /\ TheDirective(doc) # <<>>
    /\ Len(doc) > TheDirective(doc)[2]
    /\ TheDirective(doc)[1] > 1
    /\ Len(yielded) = 2
    /\ Returned[1].is = "Some"
    /\ Returned[1].val.body.code # <<>>

\* a document made of well-formed directives separated by lines that hold
\* no comment
IsWellFormedDoc(d) == IsText(d) /\ Segments(d, 1) # Ill /\ Segments(d, 1) # <<>>

\* the directives of such a document
DirectivesOf(d, tag) ==
    LET segs == Segments(d, 1)
    IN  [k \in 1..Len(segs) |->
            DirectiveAt(d, segs[k].first, segs[k].last, tag)]

InOrder(tag) ==
    IsWellFormedDoc(doc) =>
        LET ds == DirectivesOf(doc, tag)
        IN  \A k \in 1..Len(yielded) :
                Returned[k] = IF k <= Len(ds) THEN Some(ds[k]) ELSE None

\* C2: on a document of well-formed directives separated by lines without a
\* comment, the calls of Document::next return those directives in source
\* order, each with its own name, language tag and code, and then None.
C2_InOrder == InOrder("stated")

\* C2, on the documents none of whose lines has crossed markers and with
\* the tag read as the source reads it: it holds
C2_InOrderUncrossed ==
    (\A i \in 1..Len(doc) : ~HasCrossedMarkers(doc[i])) => InOrder("parsed")

C2_UncrossedReached ==
    /\ \A i \in 1..Len(doc) : ~HasCrossedMarkers(doc[i])
    /\ IsWellFormedDoc(doc)
    /\ Len(DirectivesOf(doc, "parsed")) = 2
    /\ Len(yielded) = 3
    /\ Returned[1].val.header.name # Returned[2].val.header.name

\* C4: once a call of Document::next has returned None because of a
\* malformed header, a missing opening fence or a read failure, every later
\* call returns None.
C4_Absorbing ==
    \A j, k \in 1..Len(yielded) :
        /\ j < k
        /\ Returned[j] = None
        /\ yielded[j].why \in {"malformed header", "no opening fence",
                               "stream did not contain valid UTF-8"}
        => Returned[k] = None

\* C5: every call of Document::next ends with a directive or with None; no
\* call panics.
C5_TwoOutcomes ==
    \A k \in 1..Len(yielded) : Returned[k].is \in {"Some", "None"}

\* C6: parse_comment_from_line returns the trimmed text between the first
\* opening and the first closing marker when the first precedes the second,
\* and None in every other case.
C6_CommentOrNone ==
    (call.fn = "parse_comment_from_line" /\ call.out # Pending)
        => call.out = CommentOf(call.arg)

\* C7: the language tag of an emitted directive is the trimmed text after
\* the fence marker of its opening fence line, and None when that text is
\* empty or blank.
C7_LangTag ==
    \A k \in 1..Len(yielded) :
        Returned[k].is = "Some"
            => Returned[k].val.body.lang = TagOf(doc[yielded[k].fence])

\* the directives Document::next has emitted, and the lines each spans
Emitted == SelectSeq(yielded, LAMBDA r : r.ret.is = "Some")

IsRegistered(d) == executor_for(default_executors, d.body) # None

\* the commands that dispatching the directives ds, in order, asks for
RECURSIVE CommandsFor(_)
CommandsFor(ds) ==
    IF ds = <<>> THEN <<>>
    ELSE IF IsRegistered(Head(ds))
         THEN <<Command(executor_for(default_executors, Head(ds).body).val,
                        Head(ds).body)>> \o CommandsFor(Tail(ds))
         ELSE CommandsFor(Tail(ds))

MalformedLines(d) == {i \in 1..Len(d) : IsMalformedLine(d[i])}

\* C3 as stated: with the first malformed header comment at line m, no
\* directive that starts after line m is emitted, and when the loop has
\* ended every well-formed directive lying before line m has been emitted.
C3_StopsAtFirstMalformed ==
    (IsText(doc) /\ MalformedLines(doc) # {}) =>
        LET m == Min(MalformedLines(doc))
        IN  /\ \A k \in 1..Len(Emitted) : Emitted[k].first < m
            /\ pc = "done" =>
                \A i, j \in 1..(m - 1) :
                    IsDirectiveAt(doc, i, j) =>
                        \E k \in 1..Len(Emitted) :
                            Emitted[k].first = i /\ Emitted[k].last = j

\* C3 amended: when a call of the run loop, seeking a header, reads at line
\* m a comment line that HeaderParser rejects, the call returns None and the
\* loop ends: the lines before m are directives separated by lines without
\* a comment, exactly these have been emitted and dispatched, in order, and
\* nothing that starts after line m is emitted or dispatched.
C3_StopsAtMalformedReached ==
    \A k \in 1..Len(yielded) :
        (Returned[k] = None /\ yielded[k].why = "malformed header") =>
            LET m == yielded[k].at
                before == SubSeq(doc, 1, m - 1)
                segs == Segments(before, 1)
            IN  /\ IsMalformedLine(doc[m])
                /\ k = Len(yielded)
                /\ pc = "done"
                /\ IsText(before) /\ segs # Ill
                /\ Len(Emitted) = Len(segs)
                /\ \A n \in 1..Len(segs) :
                    /\ Emitted[n].first = segs[n].first
                    /\ Emitted[n].last = segs[n].last
                    /\ Emitted[n].ret.val =
                        DirectiveAt(doc, segs[n].first, segs[n].last, "parsed")
                /\ cmds = CommandsFor([n \in 1..Len(Emitted) |-> Emitted[n].ret.val])
                /\ alive = 0

C3_MalformedReached ==
    /\ yielded # <<>>
    /\ Returned[Len(yielded)] = None
    /\ yielded[Len(yielded)].why = "malformed header"
    /\ Len(Emitted) = 2
    /\ Len(cmds) = 2
    /\ \E i \in (yielded[Len(yielded)].at + 1)..Len(doc) : IsHeaderLine(doc[i])

\* C8: Executors::execute asks for exactly one process when body.lang is
\* registered (sh for sh and shell, bash for bash), its arguments -c and then
\* body.code; with lang absent or not registered it asks for none and
\* returns success.
C8_Dispatch ==
    LET body == directive.val.body
        sh == [program |-> SH, args |-> <<DASH_C, body.code>>]
        bash == [program |-> BASH, args |-> <<DASH_C, body.code>>]
    IN  IF pc = "exec" THEN cmds = <<>>
        ELSE IF body.lang \in {Some(SH), Some(SHELL)} THEN cmds = <<sh>>
        ELSE IF body.lang = Some(BASH) THEN cmds = <<bash>>
        ELSE cmds = <<>> /\ pc = "pull" /\ fault = None /\ alive = 0

C8_Dispatched ==
    /\ pc = "wait"
    /\ directive.val.body.lang = Some(SHELL)
    /\ directive.val.body.code # <<>>
    /\ Len(cmds) = 1

\* the directives handed to execute so far: all that were emitted, but the
\* last one while main is about to dispatch it
Dispatched ==
    LET ds == [n \in 1..Len(Emitted) |-> Emitted[n].ret.val]
    IN  IF pc = "exec" THEN SubSeq(ds, 1, Len(ds) - 1) ELSE ds

\* C9: processes are spawned in the source order of their directives, at
\* most one child is alive at any time, and while the child of a directive
\* is alive the reader stands at that directive's closing fence.
C9_OneAtATime ==
    /\ alive \in {0, 1}
    /\ \A n \in 1..(Len(Emitted) - 1) : Emitted[n].last < Emitted[n + 1].first
    /\ cmds = CommandsFor(Dispatched)
    /\ alive = 1 =>
        /\ pc \in {"wait", "abort"}
        /\ Emitted # <<>>
        /\ directive = Emitted[Len(Emitted)].ret
        /\ pos = Emitted[Len(Emitted)].last
        /\ cmds[Len(cmds)] =
                Command(executor_for(default_executors, directive.val.body).val,
                        directive.val.body)

C9_ChildAlive ==
    /\ alive = 1
    /\ pc = "wait"
    /\ Len(cmds) = 2
    /\ pos < Len(doc)

\* C10: when spawning or waiting on the process of a directive fails, the
\* run aborts at that directive: no later line is read and no later
\* directive is dispatched.
C10_AbortOnFailure ==
    fault # None =>
        /\ pc = "abort"
        /\ pos = fault.val.pos
        /\ Len(cmds) = fault.val.cmds
        /\ directive = Emitted[Len(Emitted)].ret
        /\ pos = Emitted[Len(Emitted)].last

C10_FailedBeforeMore ==
    /\ fault # None
    /\ fault.val.err = "wait"
    /\ \E i, j \in (pos + 1)..Len(doc) :
            IsDirectiveAt(doc, i, j) /\ IsRegistered(DirectiveAt(doc, i, j, "parsed"))

\* what the calls of Document::next return when the document d is pulled
\* from read position p until a call returns no directive
RECURSIVE PullsFrom(_, _)
PullsFrom(d, p) ==
    LET r == Document_next(d, p)
    IN  IF r.ret.is = "Some" THEN <<r.ret>> \o PullsFrom(d, r.pos)
        ELSE <<r.ret>>

\* C11: the exit statuses of the children have no effect on the run. As
\* long as every child could be spawned and waited on, the directives
\* emitted and the processes spawned are those the document alone
\* determines, whatever statuses the children exited with, and the run
\* ends only when the document has been pulled to its end.
C11_ExitStatusIgnored ==
    LET all == PullsFrom(doc, 0)
    IN  fault = None =>
            /\ Len(Returned) <= Len(all)
            /\ Returned = SubSeq(all, 1, Len(Returned))
            /\ cmds = CommandsFor(Dispatched)
            /\ Len(exits) = Len(cmds) - alive
            /\ pc \in {"done", "abort"} => Returned = all

C11_FailureStatusSeen ==
    /\ pc = "done"
    /\ fault = None
    /\ exits = <<1, 0>>
    /\ Len(Emitted) = 2

\* the lines of a text, each with its terminator
RECURSIVE LinesOf(_)
LinesOf(text) ==
    IF text = <<>> THEN <<>>
    ELSE LET ends == {n \in 1..Len(text) : <<text[n]>> = NL}
             n == IF ends = {} THEN Len(text) ELSE Min(ends)
         IN  <<SubSeq(text, 1, n)>> \o LinesOf(SubSeq(text, n + 1, Len(text)))

\* C12: in every directive Document::next emits, no line of body.code
\* starts with the fence marker, and body.code is made of the lines that
\* lie strictly between the opening and the closing fence line, so neither
\* fence line is part of it.
C12_NoFenceInCode ==
    \A k \in 1..Len(yielded) :
        yielded[k].ret.is = "Some" =>
            LET r == yielded[k]
                ls == LinesOf(r.ret.val.body.code)
            IN  /\ \A n \in 1..Len(ls) : ~IsFenceLine(ls[n])
                /\ IsFenceLine(doc[r.fence])
                /\ IsFenceLine(doc[r.last])
                /\ r.fence < r.last
                /\ ls = SubSeq(doc, r.fence + 1, r.last - 1)

C12_CodeBetweenFences ==
    \E k \in 1..Len(yielded) :
        /\ yielded[k].ret.is = "Some"
        /\ yielded[k].ret.val.body.code # <<>>
        /\ yielded[k].last > yielded[k].fence + 1

\* the read position at which the k-th call of Document::next starts
StartOf(k) == IF k = 1 THEN 0 ELSE yielded[k - 1].pos

\* a line with both comment markers, be it a comment or a line with crossed
\* markers
HasMarkers(line) ==
    find(line, COMMENT_OPEN) # None /\ find(line, COMMENT_CLOSE) # None

\* the first line after line p at which a call that seeks a header stops:
\* a line with both markers or one that cannot be read; 0 when there is none
SeekStop(d, p) ==
    LET stops == {i \in (p + 1)..Len(d) : HasMarkers(d[i]) \/ ~is_utf8(d[i])}
    IN  IF stops = {} THEN 0 ELSE Min(stops)

\* line i, where a call stopped seeking, is a well-formed header
HeaderAt(i) ==
    /\ i > 0
    /\ is_utf8(doc[i])
    /\ IsHeaderLine(doc[i])

\* C13: a call of Document::next emits a directive only for a header line
\* whose next line is a fence delimiter; when a well-formed header is
\* followed by any other line, a blank one included, the call returns None
\* having read that line and no more.
C13_FenceRightAfterHeader ==
    \A k \in 1..Len(yielded) :
        LET r == yielded[k]
            i == SeekStop(doc, StartOf(k))
        IN  /\ r.ret.is = "Some" =>
                    /\ HeaderAt(i)
                    /\ r.first = i
                    /\ r.fence = i + 1
                    /\ i < Len(doc)
                    /\ IsFenceLine(doc[i + 1])
            /\ (HeaderAt(i) /\ i < Len(doc) /\ ~IsFenceLine(doc[i + 1])) =>
                    /\ r.ret = None
                    /\ r.pos = i + 1

C13_BlankBeforeFence ==
    \E k \in 1..Len(yielded) :
        \E i \in 1..(Len(doc) - 2) :
            /\ i = SeekStop(doc, StartOf(k))
            /\ HeaderAt(i)
            /\ doc[i + 1] = BlankLine
            /\ IsFenceLine(doc[i + 2])
            /\ yielded[k].ret = None

\* C14: from_comment_contents succeeds exactly on the contents whose
\* whitespace-separated tokens begin with the prefix, the name parameter and
\* a third token; the name is then that third token, whatever tokens follow;
\* on every other content it fails.
C14_HeaderParse ==
    (call.fn = "from_comment_contents" /\ call.out # Pending) =>
        LET ts == call.toks
        IN  IF /\ Len(ts) >= 3
               /\ ts[1] = DIRECTIVE_PREFIX
               /\ ts[2] = CODEBLOCK_NAME_PARAMETER
            THEN call.out = Ok([name |-> ts[3]])
            ELSE call.out.is = "Err"

C14_ExtraTokensIgnored ==
    /\ call.fn = "from_comment_contents"
    /\ call.out.is = "Ok"
    /\ Len(call.toks) = 4
    /\ call.toks[4] = CODEBLOCK_NAME_PARAMETER
    /\ call.out.val.name = <<"a">>

\* what the closure P says of a line, in the words of the document: seeking
\* a header skips the lines without a comment, collecting a body skips the
\* lines that are no fence delimiter, read_next_line skips nothing
Skips(P, line) ==
    CASE P = "discard_pred" -> CommentOf(line) = None
      [] P = "code_pred" -> ~IsFenceLine(line)
      [] P = "never" -> FALSE

\* the lines after line p can all be read, and seeking a header panics on
\* none of them
Readable(d, p) ==
    \A i \in (p + 1)..Len(d) : is_utf8(d[i]) /\ ~HasCrossedMarkers(d[i])

\* the call of a reading method returned the first line after its starting
\* position that its closure does not skip and left the reader on it, or,
\* when there was no such line, failed with the end of the file
ReturnedFirstKept ==
    LET stops == {i \in (call.from + 1)..Len(doc) : ~Skips(call.arg, doc[i])}
    IN  IF stops # {}
        THEN call.out = Ok(doc[Min(stops)]) /\ pos = Min(stops)
        ELSE call.out = Err("End of file") /\ pos = Len(doc)

\* C15 as stated: read_lines_while returns the first line, from the read
\* position, on which the predicate is false, having consumed every earlier
\* line, and fails with exhausted input when the end of the file comes
\* first; read_next_line called with no line left fails so.
C15_FirstKeptOrExhausted ==
    (call # Idle /\ Readable(doc, call.from)) => ReturnedFirstKept

\* what holds of read_lines_while: the same, for the calls made while a line
\* is left or with a closure that skips the empty line
C15_FirstKeptBeforeEnd ==
    (/\ call # Idle
     /\ Readable(doc, call.from)
     /\ call.from < Len(doc) \/ Skips(call.arg, <<>>)) => ReturnedFirstKept

C15_ReadAtEnd ==
    /\ call # Idle
    /\ call.fn = "read_next_line"
    /\ call.from = Len(doc)
    /\ call.out = Ok(<<>>)

\* line i, where a call stopped seeking, is a well-formed header and the
\* next line an opening fence
OpeningAt(i) ==
    /\ HeaderAt(i)
    /\ i < Len(doc)
    /\ is_utf8(doc[i + 1])
    /\ IsFenceLine(doc[i + 1])

\* a header and an opening fence are at lines i, i + 1, and the document
\* ends with no fence delimiter after them
UnclosedAt(i) ==
    /\ OpeningAt(i)
    /\ \A j \in (i + 2)..Len(doc) : is_utf8(doc[j]) /\ ~IsFenceLine(doc[j])

\* C16: every directive emitted ends at a fence line that the reader has
\* consumed; when the document ends after a header and its opening fence
\* with no closing fence, the call returns None at the end of the document,
\* the loop ends, and nothing but the directives emitted before it has been
\* emitted or dispatched.
C16_ClosedBeforeEmitted ==
    /\ \A n \in 1..Len(Emitted) :
            /\ Emitted[n].fence < Emitted[n].last
            /\ IsFenceLine(doc[Emitted[n].last])
            /\ Emitted[n].pos = Emitted[n].last
            /\ Emitted[n].last <= pos
    /\ \A k \in 1..Len(yielded) :
            UnclosedAt(SeekStop(doc, StartOf(k))) =>
                /\ yielded[k].ret = None
                /\ yielded[k].pos = Len(doc)
                /\ k = Len(yielded)
                /\ pc = "done"
                /\ Len(Emitted) = k - 1
                /\ cmds = CommandsFor([n \in 1..(k - 1) |-> yielded[n].ret.val])

C16_EndsInsideBody ==
    \E i \in 1..(Len(doc) - 2) :
        /\ yielded # <<>>
        /\ UnclosedAt(i)
        /\ i = SeekStop(doc, StartOf(Len(yielded)))
        /\ cmds # <<>>
        /\ pc = "done"

\* C17: the body of a directive runs to the first fence line after the
\* opening fence and the lines in between are its code, verbatim, comment
\* lines included: a comment line in a body neither starts a directive (the
\* next directive starts after the closing fence) nor keeps the call from
\* returning the directive.
C17_CommentsAreBodyText ==
    \A k \in 1..Len(yielded) :
        LET r == yielded[k]
            i == SeekStop(doc, StartOf(k))
            closes == {j \in (i + 2)..Len(doc) : IsFenceLine(doc[j])}
        IN  /\ r.ret.is = "Some" =>
                /\ closes # {}
                /\ r.last = Min(closes)
                /\ r.ret.val.body.code = Concat(SubSeq(doc, i + 2, r.last - 1))
                /\ k < Len(yielded) =>
                        SeekStop(doc, r.pos) \in {0} \cup ((r.last + 1)..Len(doc))
            /\ (/\ OpeningAt(i)
                /\ closes # {}
                /\ \A j \in (i + 2)..Min(closes) : is_utf8(doc[j])) =>
                    r.ret.is = "Some"

C17_HeaderInsideBody ==
    \E k \in 1..Len(yielded) :
        /\ yielded[k].ret.is = "Some"
        /\ \E j \in (yielded[k].fence + 1)..(yielded[k].last - 1) :
                IsHeaderLine(doc[j])
        /\ \E j \in (yielded[k].fence + 1)..(yielded[k].last - 1) :
                IsMalformedLine(doc[j])

\* a step of the run never moves the reader backwards, and a call of
\* Document::next that emits a directive moves it on by three lines or more
ReaderAdvances ==
    /\ pos' >= pos
    /\ pos' <= Len(doc)
    /\ (Len(yielded') > Len(yielded) /\ yielded'[Len(yielded')].ret.is = "Some") =>
            pos' >= pos + 3

\* a bound on the steps the run has left: the lines not yet read, and the
\* steps from where main stands to its next call of Document::next
StepsLeft ==
    IF pc \in {"done", "abort"} THEN 0
    ELSE (Len(doc) - pos) + (CASE pc = "pull" -> 1
                               [] pc = "wait" -> 2
                               [] pc = "exec" -> 3)

\* C18: on every document the run loop of main ends after finitely many
\* calls of Document::next, given that every spawned child terminates:
\* the read position never moves backwards, a call that emits a directive
\* consumes at least three lines, and so every step of the run, a child's
\* termination included, leaves fewer steps to take.
C18_Terminates ==
    [][/\ ReaderAdvances
       /\ StepsLeft' < StepsLeft
       /\ StepsLeft' >= 0]_vars

C18_LoopOverAfterChildren ==
    /\ pc = "done"
    /\ Len(yielded) = 4
    /\ Len(exits) = 3
    /\ pos = Len(doc)

=============================================================================
